---- MODULE Spec2Model ----
(***************************************************************************)
(* Upload controller of matrix-media-repo (upload_controller.go):          *)
(* IsRequestTooLarge, IsAllowed, UploadMedia, StoreDirect and              *)
(* trackUploadAsLastAccess, with the collaborators they call (datastore,   *)
(* media store, metadata store, file system) as shared state.              *)
(*                                                                         *)
(* Strings that the code inspects character by character (glob patterns,   *)
(* content types, user ids, the Content-Length header) are sequences of    *)
(* one-character strings; the empty string is << >>.                       *)
(***************************************************************************)
EXTENDS Integers, Sequences, FiniteSets, TLC

VARIABLES
    config,      \* config.Get().Uploads: MaxSizeBytes, AllowedTypes, PerUserExclusions
    media,       \* the media store's table: a sequence of media records
    files,       \* the file system under the datastores: path -> bytes
    lastAccess,  \* the metadata store: hash -> last access timestamp
    call,        \* per call of UploadMedia / StoreDirect: position and locals
    now,         \* util.NowMillis()
    probe        \* one evaluation of a pure function: its inputs and its result

vars == <<config, media, files, lastAccess, call, now, probe>>

(***************************************************************************)
(* Bounds of the model.                                                    *)
(***************************************************************************)
\* Number of calls of UploadMedia / StoreDirect in one behaviour.
NumCalls == 2
\* Longest byte stream handed to an upload.
MaxStreamLen == 2
\* Longest Content-Length header string.
MaxHeaderLen == 3
\* Width in bits of the integers ParseInt accepts (int64 in the code, scaled
\* down so that headers of MaxHeaderLen characters overflow it).
IntBits == 5

Int64Max == 2^(IntBits - 1) - 1
Int64Min == -(2^(IntBits - 1))
Uint64Max == 2^IntBits - 1

\* const NoApplicableUploadUser = ""
NoApplicableUploadUser == << >>

None == "none"

----------------------------------------------------------------------------
(***************************************************************************)
(* glob.Glob(pattern, subj): "*" matches any run of characters, every      *)
(* other character matches itself.                                         *)
(***************************************************************************)
RECURSIVE Glob(_, _)
Glob(pattern, subj) ==
    IF pattern = << >> THEN subj = << >>
    ELSE IF Head(pattern) = "*"
         THEN \/ Glob(Tail(pattern), subj)
              \/ subj # << >> /\ Glob(pattern, Tail(subj))
         ELSE /\ subj # << >>
              /\ Head(pattern) = Head(subj)
              /\ Glob(Tail(pattern), Tail(subj))

(***************************************************************************)
(* strconv.ParseInt(s, 10, IntBits): [ok, value].  An optional sign, then  *)
(* at least one decimal digit; the magnitude is accumulated as an unsigned *)
(* integer and must fit the signed range.                                  *)
(***************************************************************************)
Digits == <<"0", "1", "2", "3", "4", "5", "6", "7", "8", "9">>

IsDigit(c) == \E i \in 1..Len(Digits) : Digits[i] = c

DigitVal(c) == (CHOOSE i \in 1..Len(Digits) : Digits[i] = c) - 1

\* strconv.ParseUint: [ok, value]; fails on an empty string, on a character
\* that is no digit and when the value leaves the unsigned range.
RECURSIVE ParseUintFrom(_, _)
ParseUintFrom(s, n) ==
    IF s = << >> THEN [ok |-> TRUE, value |-> n]
    ELSE IF ~IsDigit(Head(s)) THEN [ok |-> FALSE, value |-> 0]
    ELSE LET n1 == n * 10 + DigitVal(Head(s))
         IN  IF n1 > Uint64Max THEN [ok |-> FALSE, value |-> Uint64Max]
             ELSE ParseUintFrom(Tail(s), n1)

ParseUint(s) ==
    IF s = << >> THEN [ok |-> FALSE, value |-> 0] ELSE ParseUintFrom(s, 0)

ParseInt(s) ==
    IF s = << >> THEN [ok |-> FALSE, value |-> 0]
    ELSE LET neg  == Head(s) = "-"
             rest == IF Head(s) \in {"+", "-"} THEN Tail(s) ELSE s
             un   == ParseUint(rest)
             cutoff == Int64Max + 1
         IN  IF ~un.ok THEN [ok |-> FALSE, value |-> 0]
             ELSE IF ~neg /\ un.value >= cutoff THEN [ok |-> FALSE, value |-> Int64Max]
             ELSE IF neg /\ un.value > cutoff THEN [ok |-> FALSE, value |-> Int64Min]
             ELSE [ok |-> TRUE, value |-> IF neg THEN -un.value ELSE un.value]

(***************************************************************************)
(* IsRequestTooLarge(contentLength, contentLengthHeader)                   *)
(***************************************************************************)
IsRequestTooLargeGe(contentLength, contentLengthHeader) ==
    IF config.MaxSizeBytes <= 0 THEN FALSE
    ELSE IF contentLength >= 0 THEN contentLength >= config.MaxSizeBytes
    ELSE IF contentLengthHeader # << >>
         THEN LET parsed == ParseInt(contentLengthHeader)
              IN  IF ~parsed.ok THEN TRUE
                  ELSE parsed.value >= config.MaxSizeBytes
    ELSE FALSE

IsRequestTooLarge(contentLength, contentLengthHeader) ==
    IF config.MaxSizeBytes <= 0 THEN FALSE
    ELSE IF contentLength >= 0 THEN contentLength > config.MaxSizeBytes
    ELSE IF contentLengthHeader # << >>
         THEN LET parsed == ParseInt(contentLengthHeader)
              IN  IF ~parsed.ok THEN TRUE  \* Invalid header
                  ELSE parsed.value > config.MaxSizeBytes
    ELSE FALSE  \* We can only assume

(***************************************************************************)
(* IsAllowed(contentType, reportedContentType, userId, log).  The per-user *)
(* exclusions are a Go map: `order` is the order in which this range over  *)
(* it visits the keys.                                                     *)
(***************************************************************************)
\* for _, exclType := range userExcl: some glob of the list matches.
AnyGlob(globs, contentType) ==
    \E i \in 1..Len(globs) : Glob(globs[i], contentType)

\* The loop over the per-user entries from position i on, with the loop's
\* variables st = [allowed, userMatched]; it breaks once allowed is set.
RECURSIVE RangePerUserFirst(_, _, _, _, _)
RangePerUserFirst(order, i, st, contentType, userId) ==
    IF i > Len(order) THEN st
    ELSE IF Glob(order[i], userId)
         THEN [allowed     |-> AnyGlob(config.PerUserExclusions[order[i]], contentType),
               userMatched |-> TRUE]
         ELSE RangePerUserFirst(order, i + 1, st, contentType, userId)

RECURSIVE RangePerUserOverwrite(_, _, _, _, _)
RangePerUserOverwrite(order, i, st, contentType, userId) ==
    IF i > Len(order) THEN st
    ELSE RangePerUserOverwrite(order, i + 1,
             IF Glob(order[i], userId)
             THEN [allowed     |-> AnyGlob(config.PerUserExclusions[order[i]], contentType),
                   userMatched |-> TRUE]
             ELSE st,
             contentType, userId)

RECURSIVE RangePerUser(_, _, _, _, _)
RangePerUser(order, i, st, contentType, userId) ==
    IF i > Len(order) THEN st
    ELSE LET user     == order[i]
             userExcl == config.PerUserExclusions[user]
             hit      == Glob(user, userId)
             st1 == IF hit
                    THEN [allowed     |-> st.allowed \/ AnyGlob(userExcl, contentType),
                          userMatched |-> TRUE]
                    ELSE st
         IN  IF st1.allowed THEN st1
             ELSE RangePerUser(order, i + 1, st1, contentType, userId)

IsAllowedInFallThrough(order, contentType, reportedContentType, userId) ==
    LET st0 == [allowed |-> FALSE, userMatched |-> FALSE]
        st  == IF userId # NoApplicableUploadUser
               THEN RangePerUser(order, 1, st0, contentType, userId)
               ELSE st0
    IN  IF ~st.allowed
        THEN \/ AnyGlob(config.AllowedTypes, contentType)
             \/ Len(config.AllowedTypes) = 0
        ELSE st.allowed

IsAllowedInNoSentinel(order, contentType, reportedContentType, userId) ==
    LET st0 == [allowed |-> FALSE, userMatched |-> FALSE]
        st  == RangePerUser(order, 1, st0, contentType, userId)
    IN  IF ~st.userMatched /\ ~st.allowed
        THEN \/ AnyGlob(config.AllowedTypes, contentType)
             \/ Len(config.AllowedTypes) = 0
        ELSE st.allowed

IsAllowedIn(order, contentType, reportedContentType, userId) ==
    LET st0 == [allowed |-> FALSE, userMatched |-> FALSE]
        st  == IF userId # NoApplicableUploadUser
               THEN RangePerUser(order, 1, st0, contentType, userId)
               ELSE st0
    IN  IF ~st.userMatched /\ ~st.allowed
        THEN \/ AnyGlob(config.AllowedTypes, contentType)
             \/ Len(config.AllowedTypes) = 0
        ELSE st.allowed

\* The orders in which a range over the map m may visit its keys.
RangeOrders(m) ==
    {o \in [1..Cardinality(DOMAIN m) -> DOMAIN m] :
        \A i, j \in DOMAIN o : i # j => o[i] # o[j]}

----------------------------------------------------------------------------
(***************************************************************************)
(* Values the inputs are drawn from.                                       *)
(***************************************************************************)
\* Content types, as the sniffer returns them and as uploaders report them.
MimePng  == <<"i", "/", "p">>
MimeZip  == <<"a", "/", "z">>
MimeText == <<"t", "/", "x">>

\* Glob patterns over content types.
GlobImage == <<"i", "/", "*">>
GlobZip   == <<"a", "/", "z">>

\* Glob patterns over user ids, and user ids.
GlobAnyUser == <<"*">>
Alice == <<"a">>
Bob   == <<"b">>

SeqsUpTo(S, n) == UNION {[1..k -> S] : k \in 0..n}

EmptyMap == [u \in {} |-> << >>]

NoProbe == [fn |-> None]

(***************************************************************************)
(* One evaluation of IsRequestTooLarge on inputs drawn from bounded sets.  *)
(***************************************************************************)
HeaderChars == {"0", "1", "6", "-", "+", "x"}
Headers == SeqsUpTo(HeaderChars, MaxHeaderLen)
MaxSizes == {-1, 0, 1, 6, 10, Int64Max}
ContentLengths ==
    {-1, 0} \cup {n \in 0..Int64Max : \E m \in MaxSizes : n \in {m - 1, m, m + 1}}

InitTooLarge ==
    /\ config \in [MaxSizeBytes : MaxSizes, AllowedTypes : {<< >>},
                   PerUserExclusions : {EmptyMap}]
    /\ media = << >>
    /\ files = EmptyMap
    /\ lastAccess = EmptyMap
    /\ call = EmptyMap
    /\ now = 0
    /\ probe \in [fn : {"IsRequestTooLarge"}, contentLength : ContentLengths,
                  header : Headers, pc : {"call"}, result : {None}]

EvalTooLarge ==
    /\ probe.fn = "IsRequestTooLarge"
    /\ probe.pc = "call"
    /\ probe' = [probe EXCEPT !.pc = "ret",
                              !.result = IsRequestTooLarge(probe.contentLength, probe.header)]
    /\ UNCHANGED <<config, media, files, lastAccess, call, now>>

NextTooLarge == EvalTooLarge

SpecTooLarge == InitTooLarge /\ [][NextTooLarge]_vars

(***************************************************************************)
(* One evaluation of IsAllowed on inputs drawn from bounded sets.          *)
(***************************************************************************)
GlobLists == {<< >>, <<GlobImage>>, <<GlobZip>>, <<GlobImage, GlobZip>>}
UserPatterns == {GlobAnyUser, Alice, Bob}
UserIds == {NoApplicableUploadUser, Alice, Bob}
PerUserMaps == UNION {[D -> GlobLists] : D \in SUBSET UserPatterns}

InitAllowed ==
    /\ config \in [MaxSizeBytes : {0}, AllowedTypes : GlobLists,
                   PerUserExclusions : PerUserMaps]
    /\ media = << >>
    /\ files = EmptyMap
    /\ lastAccess = EmptyMap
    /\ call = EmptyMap
    /\ now = 0
    /\ \E ct \in {MimePng, MimeZip, MimeText}, rct \in {MimePng, MimeZip},
          uid \in UserIds :
         probe = [fn |-> "IsAllowed", contentType |-> ct, reportedContentType |-> rct,
                  userId |-> uid, pc |-> "call", order |-> << >>, result |-> None]

EvalAllowed ==
    /\ probe.fn = "IsAllowed"
    /\ probe.pc = "call"
    /\ \E order \in RangeOrders(config.PerUserExclusions) :
         probe' = [probe EXCEPT !.pc = "ret", !.order = order,
                                !.result = IsAllowedIn(order, probe.contentType,
                                               probe.reportedContentType, probe.userId)]
    /\ UNCHANGED <<config, media, files, lastAccess, call, now>>

NextAllowed == EvalAllowed

SpecAllowed == InitAllowed /\ [][NextAllowed]_vars

----------------------------------------------------------------------------
(***************************************************************************)
(* The upload pipeline: UploadMedia and StoreDirect, one step per call of  *)
(* a collaborator.  Each call p of the controller has its own locals in    *)
(* call[p]; the media store, the metadata store and the files are shared.  *)
(***************************************************************************)
Bytes == {"P", "Z"}
\* Byte streams: the empty one, one byte of each kind, and runs of "P".
Streams ==
    {s \in SeqsUpTo(Bytes, MaxStreamLen) : Len(s) > 1 => \A i \in 1..Len(s) : s[i] = "P"}
ReportedTypes == {MimePng, MimeZip}
Filenames == {"a.png", "b.png"}
\* What the other controllers pass to StoreDirect.
DirectFilenames == {"b.png"}
DirectUserIds == {NoApplicableUploadUser, Alice}
Origins == {"h"}
Datastores == {"ds1"}
CallerMediaIds == {<<"caller", 1>>}

\* The configurations an upload runs under.
ConfigLimited ==
    [MaxSizeBytes |-> 1, AllowedTypes |-> <<GlobImage>>,
     PerUserExclusions |-> (Alice :> <<GlobZip>>)]
ConfigOpen ==
    [MaxSizeBytes |-> 0, AllowedTypes |-> << >>,
     PerUserExclusions |-> (Alice :> << >>)]
PipelineConfigs == {ConfigLimited, ConfigOpen}

NoMedia ==
    [Origin |-> "", MediaId |-> << >>, UploadName |-> "", ContentType |-> << >>,
     UserId |-> << >>, Sha256Hash |-> << >>, SizeBytes |-> 0, DatastoreId |-> "",
     Location |-> 0, CreationTs |-> 0]

IdleCall ==
    [pc |-> "idle", fn |-> None, stream |-> << >>, contents |-> << >>,
     contentType |-> << >>, filename |-> "", userId |-> << >>, origin |-> "",
     mediaId |-> << >>, tooLarge |-> FALSE,
     datastoreId |-> "", location |-> 0, fileMime |-> << >>, hash |-> << >>,
     records |-> << >>, media |-> NoMedia, clone |-> FALSE, exists |-> FALSE,
     existsErr |-> FALSE,
     result |-> << >>, err |-> None, inserts |-> 0, tracked |-> FALSE,
     trackedHash |-> << >>, upsertErr |-> FALSE]

\* util.GenerateRandomString(64): the id generated for call p; no two calls
\* draw the same 64 random characters.
GenerateRandomString(p) == <<"random", p>>

\* io.LimitReader(contents, MaxSizeBytes) when a limit is configured.
LimitReaderOff(contents) == contents

LimitReader(contents) ==
    IF config.MaxSizeBytes > 0
    THEN SubSeq(contents, 1, IF Len(contents) < config.MaxSizeBytes
                             THEN Len(contents) ELSE config.MaxSizeBytes)
    ELSE contents

\* datastore.ResolveFilePath / storage.ResolveMediaLocation: the path of a
\* location in a datastore.
ResolveFilePath(datastoreId, location) == <<datastoreId, location>>

\* util.GetMimeType: the content type read from the file's first bytes.
GetMimeType(bytes) ==
    IF bytes = << >> THEN MimeText
    ELSE IF Head(bytes) = "P" THEN MimePng ELSE MimeZip

\* storage.GetFileHash: the SHA-256 of the file's bytes (collision free).
GetFileHash(bytes) == <<"sha256", bytes>>

\* util.FileSize
FileSize(bytes) == Len(bytes)

\* os.Remove(path)
Remove(fs, path) == [q \in DOMAIN fs \ {path} |-> fs[q]]

\* os.Rename(src, dst): dst is replaced by src's file.
Rename(fs, src, dst) ==
    IF src \in DOMAIN fs
    THEN [q \in (DOMAIN fs \ {src}) \cup {dst} |-> IF q = dst THEN fs[src] ELSE fs[q]]
    ELSE fs

TempPath(c) == ResolveFilePath(c.datastoreId, c.location)

\* return nil, err
ReturnErr(c, e) == [c EXCEPT !.pc = "done", !.err = e, !.result = << >>]

\* The calls that are running (entered and not yet returned).
Running == {p \in DOMAIN call : call[p].pc \notin {"idle", "done"}}

\* Calls enter in the order of their numbers.
MayEnter(p) ==
    /\ call[p].pc = "idle"
    /\ \A q \in DOMAIN call : q < p => call[q].pc # "idle"

InitPipeline ==
    /\ config \in PipelineConfigs
    /\ media = << >>
    /\ files = EmptyMap
    /\ lastAccess = EmptyMap
    /\ call = [p \in 1..NumCalls |-> IdleCall]
    /\ now = 0
    /\ probe = NoProbe

\* storage.PersistFile(contents, ctx, log), the first statement of
\* StoreDirect: the stream is written to a new file of a datastore, or the
\* call returns the error.
PersistFile(p, c) ==
    \/ \E ds \in Datastores :
         /\ files' = [q \in DOMAIN files \cup {ResolveFilePath(ds, p)} |->
                        IF q = ResolveFilePath(ds, p) THEN c.contents ELSE files[q]]
         /\ call' = [call EXCEPT ![p] =
                       [c EXCEPT !.pc = "sniff", !.datastoreId = ds, !.location = p]]
    \/ /\ call' = [call EXCEPT ![p] = ReturnErr(c, "PersistFile")]
       /\ UNCHANGED files

\* UploadMedia: limit the stream, generate the media id, call StoreDirect.
UploadMedia(p) ==
    /\ MayEnter(p)
    /\ \E stream \in Streams, contentType \in ReportedTypes, filename \in Filenames,
          userId \in UserIds, origin \in Origins :
         LET c == [IdleCall EXCEPT
                     !.fn = "UploadMedia", !.stream = stream,
                     !.contents = LimitReader(stream),
                     !.contentType = contentType, !.filename = filename,
                     !.userId = userId, !.origin = origin,
                     !.tooLarge = IsRequestTooLarge(Len(stream), << >>)]
         IN  \/ PersistFile(p, [c EXCEPT !.mediaId = GenerateRandomString(p)])
             \/ /\ call' = [call EXCEPT ![p] = ReturnErr(c, "GenerateRandomString")]
                /\ UNCHANGED files
    /\ now' = now + 1
    /\ UNCHANGED <<config, media, lastAccess, probe>>

\* StoreDirect called by another controller, with the caller's media id and
\* a stream that no limit was put on.
StoreDirect(p) ==
    /\ MayEnter(p)
    /\ \E stream \in Streams, contentType \in ReportedTypes, filename \in DirectFilenames,
          userId \in DirectUserIds, origin \in Origins, mediaId \in CallerMediaIds :
         PersistFile(p, [IdleCall EXCEPT
                           !.fn = "StoreDirect", !.stream = stream,
                           !.contents = stream,
                           !.contentType = contentType, !.filename = filename,
                           !.userId = userId, !.origin = origin, !.mediaId = mediaId,
                           !.tooLarge = IsRequestTooLarge(Len(stream), << >>)])
    /\ now' = now + 1
    /\ UNCHANGED <<config, media, lastAccess, probe>>

\* util.GetMimeType(fileLocation)
Sniff(p) ==
    /\ call[p].pc = "sniff"
    /\ \/ /\ call' = [call EXCEPT ![p].pc = "admit",
                                  ![p].fileMime = GetMimeType(files[TempPath(call[p])])]
          /\ UNCHANGED files
       \/ /\ files' = Remove(files, TempPath(call[p]))
          /\ call' = [call EXCEPT ![p] = ReturnErr(@, "GetMimeType")]
    /\ UNCHANGED <<config, media, lastAccess, now, probe>>

\* allowed := IsAllowed(fileMime, contentType, userId, log)
AdmitAll(order, c) == TRUE

AdmitReported(order, c) == IsAllowedIn(order, c.contentType, c.contentType, c.userId)

Admit(order, c) == IsAllowedIn(order, c.fileMime, c.contentType, c.userId)

CheckAllowed(p) ==
    /\ call[p].pc = "admit"
    /\ \E order \in RangeOrders(config.PerUserExclusions) :
         IF Admit(order, call[p])
         THEN /\ call' = [call EXCEPT ![p].pc = "hash"]
              /\ UNCHANGED files
         ELSE /\ files' = Remove(files, TempPath(call[p]))
              /\ call' = [call EXCEPT ![p] = ReturnErr(@, "ErrMediaNotAllowed")]
    /\ UNCHANGED <<config, media, lastAccess, now, probe>>

\* storage.GetFileHash(fileLocation)
Hash(p) ==
    /\ call[p].pc = "hash"
    /\ \/ /\ call' = [call EXCEPT ![p].pc = "lookup",
                                  ![p].hash = GetFileHash(files[TempPath(call[p])])]
          /\ UNCHANGED files
       \/ /\ files' = Remove(files, TempPath(call[p]))
          /\ call' = [call EXCEPT ![p] = ReturnErr(@, "GetFileHash")]
    /\ UNCHANGED <<config, media, lastAccess, now, probe>>

\* db.GetByHash(hash): the rows with this hash, in an order the store chooses.
GetByHash(hash) ==
    LET rows == {i \in 1..Len(media) : media[i].Sha256Hash = hash}
        orders == {o \in [1..Cardinality(rows) -> rows] :
                     \A i, j \in DOMAIN o : i # j => o[i] # o[j]}
    IN  {[k \in DOMAIN o |-> media[o[k]]] : o \in orders}

Lookup(p) ==
    /\ call[p].pc = "lookup"
    /\ \/ /\ \E records \in GetByHash(call[p].hash) :
               call' = [call EXCEPT ![p].pc = "reconcile", ![p].records = records]
          /\ UNCHANGED files
       \/ /\ files' = Remove(files, TempPath(call[p]))
          /\ call' = [call EXCEPT ![p] = ReturnErr(@, "GetByHash")]
    /\ UNCHANGED <<config, media, lastAccess, now, probe>>

\* The scan for an exact duplicate: the position in records of the first
\* record of this user, origin and reported content type, or 0.
IsExactSniffed(record, c) ==
    /\ record.UserId = c.userId
    /\ record.Origin = c.origin
    /\ record.ContentType = c.fileMime

IsExact(record, c) ==
    /\ record.UserId = c.userId
    /\ record.Origin = c.origin
    /\ record.ContentType = c.contentType

ExactDuplicate(c) ==
    IF c.userId # NoApplicableUploadUser
       /\ \E i \in 1..Len(c.records) : IsExact(c.records[i], c)
    THEN CHOOSE i \in 1..Len(c.records) :
           /\ IsExact(c.records[i], c)
           /\ \A j \in 1..(i - 1) : ~IsExact(c.records[j], c)
    ELSE 0

\* media := records[0] with the new upload's attributes.
CloneDatastore(c) ==
    [c.records[1] EXCEPT
       !.Origin = c.origin, !.MediaId = c.mediaId, !.UserId = c.userId,
       !.UploadName = c.filename, !.ContentType = c.contentType,
       !.CreationTs = now,
       !.DatastoreId = c.datastoreId, !.Location = c.location]

CloneLast(c) ==
    [c.records[Len(c.records)] EXCEPT
       !.Origin = c.origin, !.MediaId = c.mediaId, !.UserId = c.userId,
       !.UploadName = c.filename, !.ContentType = c.contentType,
       !.CreationTs = now]

Clone(c) ==
    [c.records[1] EXCEPT
       !.Origin = c.origin, !.MediaId = c.mediaId, !.UserId = c.userId,
       !.UploadName = c.filename, !.ContentType = c.contentType,
       !.CreationTs = now]

\* if len(records) > 0 { ... }: an exact duplicate is returned (after the
\* last access is tracked), else the first record is cloned; with no record
\* the upload is saved as new.
Reconcile(p) ==
    /\ call[p].pc = "reconcile"
    /\ LET c == call[p]
           dup == ExactDuplicate(c)
       IN  IF Len(c.records) > 0
           THEN IF dup > 0
                THEN /\ files' = Remove(files, TempPath(c))
                     /\ call' = [call EXCEPT ![p].pc = "track",
                                             ![p].media = c.records[dup]]
                ELSE /\ call' = [call EXCEPT ![p].pc = "insert", ![p].clone = TRUE,
                                             ![p].media = Clone(c)]
                     /\ UNCHANGED files
           ELSE /\ call' = [call EXCEPT ![p].pc = "stat"]
                /\ UNCHANGED files
    /\ UNCHANGED <<config, media, lastAccess, now, probe>>

\* media := &types.Media{...}
NewMediaDeclaredSize(c, fileSize) ==
    [Origin |-> c.origin, MediaId |-> c.mediaId, UploadName |-> c.filename,
     ContentType |-> c.contentType, UserId |-> c.userId, Sha256Hash |-> c.hash,
     SizeBytes |-> Len(c.stream), DatastoreId |-> c.datastoreId, Location |-> c.location,
     CreationTs |-> now]

NewMedia(c, fileSize) ==
    [Origin |-> c.origin, MediaId |-> c.mediaId, UploadName |-> c.filename,
     ContentType |-> c.contentType, UserId |-> c.userId, Sha256Hash |-> c.hash,
     SizeBytes |-> fileSize, DatastoreId |-> c.datastoreId, Location |-> c.location,
     CreationTs |-> now]

\* if fileSize <= 0 { return nil, errors.New("file has no contents") }
IsEmptyNegative(fileSize) == fileSize < 0

IsEmptyNever(fileSize) == FALSE

IsEmpty(fileSize) == fileSize <= 0

\* util.FileSize(fileLocation) and the check of the size.
Stat(p) ==
    /\ call[p].pc = "stat"
    /\ \/ /\ LET c == call[p]
                 fileSize == FileSize(files[TempPath(c)])
             IN  call' = [call EXCEPT ![p] =
                            IF IsEmpty(fileSize)
                            THEN ReturnErr(c, "file has no contents")
                            ELSE [c EXCEPT !.pc = "insert",
                                           !.media = NewMedia(c, fileSize)]]
          /\ UNCHANGED files
       \/ /\ files' = Remove(files, TempPath(call[p]))
          /\ call' = [call EXCEPT ![p] = ReturnErr(@, "FileSize")]
    /\ UNCHANGED <<config, media, lastAccess, now, probe>>

KeyTakenNever(record) == FALSE

\* The media store's key: a row of this (origin, media id) is already stored,
\* and the store refuses a second one.
KeyTaken(record) ==
    \E i \in 1..Len(media) :
        /\ media[i].Origin = record.Origin
        /\ media[i].MediaId = record.MediaId

\* db.Insert(media)
Insert(p) ==
    /\ call[p].pc = "insert"
    /\ \/ /\ ~KeyTaken(call[p].media)
          /\ media' = Append(media, call[p].media)
          /\ call' = [call EXCEPT ![p].pc = IF call[p].clone THEN "resolve" ELSE "track",
                                  ![p].inserts = @ + 1]
          /\ UNCHANGED files
       \/ /\ files' = Remove(files, TempPath(call[p]))
          /\ call' = [call EXCEPT ![p] = ReturnErr(@, "Insert")]
          /\ UNCHANGED media
    /\ UNCHANGED <<config, lastAccess, now, probe>>

\* storage.ResolveMediaLocation(ctx, log, media.DatastoreId, media.Location)
TargetPath(c) == ResolveFilePath(c.media.DatastoreId, c.media.Location)

ResolveMediaLocation(p) ==
    /\ call[p].pc = "resolve"
    /\ \/ call' = [call EXCEPT ![p].pc = "exists"]
       \/ call' = [call EXCEPT ![p] = ReturnErr(@, "ResolveMediaLocation")]
    /\ UNCHANGED <<config, media, files, lastAccess, now, probe>>

\* exists, err := util.FileExists(targetPath): whether the file is there, or
\* (true, err) when the file system refuses the question.
FileExists(p) ==
    /\ call[p].pc = "exists"
    /\ \/ call' = [call EXCEPT ![p].pc = "move",
                               ![p].exists = TargetPath(call[p]) \in DOMAIN files]
       \/ call' = [call EXCEPT ![p].pc = "move", ![p].exists = TRUE,
                               ![p].existsErr = TRUE]
    /\ UNCHANGED <<config, media, files, lastAccess, now, probe>>

\* if err != nil || !exists { os.Rename(fileLocation, targetPath) }
\* else { os.Remove(fileLocation) }
MoveOrRemoveKeep(fs, c) ==
    IF c.existsErr \/ ~c.exists THEN Rename(fs, TempPath(c), TargetPath(c)) ELSE fs

MoveOrRemoveTarget(fs, c) ==
    IF c.existsErr \/ ~c.exists
    THEN Rename(fs, TempPath(c), TargetPath(c))
    ELSE Remove(fs, TargetPath(c))

MoveOrRemove(fs, c) ==
    IF c.existsErr \/ ~c.exists
    THEN Rename(fs, TempPath(c), TargetPath(c))
    ELSE Remove(fs, TempPath(c))

Move(p) ==
    /\ call[p].pc = "move"
    /\ files' = MoveOrRemove(files, call[p])
    /\ call' = [call EXCEPT ![p].pc = "track"]
    /\ UNCHANGED <<config, media, lastAccess, now, probe>>

\* UpsertLastAccess(media.Sha256Hash, util.NowMillis())
UpsertLastAccess(la, hash, ts) ==
    [h \in DOMAIN la \cup {hash} |-> IF h = hash THEN ts ELSE la[h]]

\* The call after trackUploadAsLastAccess(ctx, log, media) and
\* return media, nil: a failed upsert (ok = FALSE) is logged only.
TrackedOrFail(c, ok) ==
    IF ok
    THEN [c EXCEPT !.pc = "done", !.tracked = TRUE,
                   !.trackedHash = c.media.Sha256Hash, !.result = <<c.media>>]
    ELSE [c EXCEPT !.pc = "done", !.tracked = TRUE,
                   !.trackedHash = c.media.Sha256Hash, !.upsertErr = TRUE,
                   !.err = "UpsertLastAccess"]

Tracked(c, ok) ==
    [c EXCEPT !.pc = "done", !.tracked = TRUE,
              !.trackedHash = c.media.Sha256Hash, !.upsertErr = ~ok,
              !.result = <<c.media>>]

\* trackUploadAsLastAccess(ctx, log, media); return media, nil
Track(p) ==
    /\ call[p].pc = "track"
    /\ \E ok \in BOOLEAN :
         /\ lastAccess' = IF ok
                          THEN UpsertLastAccess(lastAccess, call[p].media.Sha256Hash, now)
                          ELSE lastAccess
         /\ call' = [call EXCEPT ![p] = Tracked(call[p], ok)]
    /\ UNCHANGED <<config, media, files, now, probe>>

Next ==
    \E p \in 1..NumCalls :
        \/ UploadMedia(p)
        \/ StoreDirect(p)
        \/ Sniff(p)
        \/ CheckAllowed(p)
        \/ Hash(p)
        \/ Lookup(p)
        \/ Reconcile(p)
        \/ Stat(p)
        \/ Insert(p)
        \/ ResolveMediaLocation(p)
        \/ FileExists(p)
        \/ Move(p)
        \/ Track(p)

\* Uploads running in parallel, from an empty store.
Spec == InitPipeline /\ [][Next]_vars

(***************************************************************************)
(* Uploads executed one after another: a call enters only when no other    *)
(* call is running.                                                        *)
(***************************************************************************)
InitSeq ==
    /\ config \in PipelineConfigs
    /\ media = << >>
    /\ files = EmptyMap
    /\ lastAccess = EmptyMap
    /\ call = [p \in 1..NumCalls |-> IdleCall]
    /\ now = 0
    /\ probe = NoProbe

UploadMediaSeq(p) == Running = {} /\ UploadMedia(p)

StoreDirectSeq(p) == Running = {} /\ StoreDirect(p)

NextSeq ==
    \E p \in 1..NumCalls :
        \/ UploadMediaSeq(p)
        \/ StoreDirectSeq(p)
        \/ Sniff(p)
        \/ CheckAllowed(p)
        \/ Hash(p)
        \/ Lookup(p)
        \/ Reconcile(p)
        \/ Stat(p)
        \/ Insert(p)
        \/ ResolveMediaLocation(p)
        \/ FileExists(p)
        \/ Move(p)
        \/ Track(p)

SpecSeq == InitSeq /\ [][NextSeq]_vars

(***************************************************************************)
(* Uploads running in parallel over a store that already holds a record of *)
(* an earlier upload, whose file is either in place or has been removed    *)
(* from the datastore by another part of the repository.                   *)
(***************************************************************************)
StoredMedia ==
    [Origin |-> "h", MediaId |-> <<"stored", 0>>, UploadName |-> "a.png",
     ContentType |-> MimePng, UserId |-> Bob, Sha256Hash |-> GetFileHash(<<"P">>),
     SizeBytes |-> 1, DatastoreId |-> "ds1", Location |-> 0, CreationTs |-> 0]

InitStored ==
    /\ config \in PipelineConfigs
    /\ media = <<StoredMedia>>
    /\ files \in {EmptyMap, (ResolveFilePath("ds1", 0) :> <<"P">>)}
    /\ lastAccess = EmptyMap
    /\ call = [p \in 1..NumCalls |-> IdleCall]
    /\ now = 0
    /\ probe = NoProbe

SpecStored == InitStored /\ [][Next]_vars

(***************************************************************************)
(* Uploads of the same bytes racing each other: one call more than above,  *)
(* every one an UploadMedia of the same stream under the same name and     *)
(* reported type, by a user the configurations admit or by no applicable   *)
(* user.                                                                   *)
(***************************************************************************)
NumRaceCalls == NumCalls + 1
RaceStream == <<"P">>
RaceUserIds == {NoApplicableUploadUser, Bob}

InitRace ==
    /\ config \in PipelineConfigs
    /\ media = << >>
    /\ files = EmptyMap
    /\ lastAccess = EmptyMap
    /\ call = [p \in 1..NumRaceCalls |-> IdleCall]
    /\ now = 0
    /\ probe = NoProbe

UploadMediaRace(p) ==
    /\ UploadMedia(p)
    /\ call'[p].stream = RaceStream
    /\ call'[p].contentType = MimePng
    /\ call'[p].filename = "a.png"
    /\ call'[p].userId \in RaceUserIds

NextRace ==
    \E p \in 1..NumRaceCalls :
        \/ UploadMediaRace(p)
        \/ Sniff(p)
        \/ CheckAllowed(p)
        \/ Hash(p)
        \/ Lookup(p)
        \/ Reconcile(p)
        \/ Stat(p)
        \/ Insert(p)
        \/ ResolveMediaLocation(p)
        \/ FileExists(p)
        \/ Move(p)
        \/ Track(p)

SpecRace == InitRace /\ [][NextRace]_vars

----------------------------------------------------------------------------
(***************************************************************************)
(* Properties.                                                             *)
(***************************************************************************)
Returned(p) == call[p].pc = "done"
Succeeded(p) == Returned(p) /\ call[p].err = None
Failed(p) == Returned(p) /\ call[p].err # None
\* PersistFile succeeded in call p: the call has a temp file.
Persisted(p) == call[p].location # 0
Stored(record) == \E i \in 1..Len(media) : media[i] = record
BlobPath(record) == ResolveFilePath(record.DatastoreId, record.Location)

\* C1: at every return of StoreDirect after persist succeeded, either the
\* call succeeded and the media store holds the returned record, of size > 0,
\* whose (datastore id, location) names an existing file, or the call returned
\* an error and its temp file no longer exists.
C1_RecordOrNoTempFile ==
    \A p \in DOMAIN call :
        (Returned(p) /\ Persisted(p)) =>
            \/ /\ Succeeded(p)
               /\ call[p].result # << >>
               /\ call[p].result[1].SizeBytes > 0
               /\ Stored(call[p].result[1])
               /\ BlobPath(call[p].result[1]) \in DOMAIN files
            \/ /\ Failed(p)
               /\ TempPath(call[p]) \notin DOMAIN files

\* Call q uploads again what call p uploaded: the same bytes under the same
\* (reported content type, user id, origin), after p returned successfully.
Reupload(p, q) ==
    /\ p < q
    /\ Succeeded(p)
    /\ Succeeded(q)
    /\ call[q].stream = call[p].stream
    /\ call[q].contents = call[p].contents
    /\ call[q].contentType = call[p].contentType
    /\ call[q].userId = call[p].userId
    /\ call[q].origin = call[p].origin

SameRecordReturned(p, q) ==
    /\ call[q].result = call[p].result
    /\ call[q].inserts = 0
    /\ Stored(call[p].result[1])

\* C2 as stated: for every triple, uploading the same bytes again under the
\* same triple returns the first upload's record and inserts nothing.
C2_ReuploadIdempotentAnyUser ==
    \A p, q \in DOMAIN call : Reupload(p, q) => SameRecordReturned(p, q)

\* C2 amended: for every triple whose user id is not the sentinel, uploading
\* the same bytes again under the same triple returns the first upload's
\* record, inserts no record and leaves the stored record as it was.
C2_ReuploadIdempotent ==
    \A p, q \in DOMAIN call :
        (Reupload(p, q) /\ call[p].userId # NoApplicableUploadUser)
            => SameRecordReturned(p, q)

C2_Witness ==
    \E p, q \in DOMAIN call :
        /\ Reupload(p, q)
        /\ call[p].userId # NoApplicableUploadUser
        /\ call[p].inserts = 1
        /\ call[q].inserts = 0
        /\ call[q].result = call[p].result

\* C3: when uploads run one after another, all records that share a hash
\* share the same (datastore id, location).
C3_OneLocationPerHash ==
    \A i, j \in 1..Len(media) :
        media[i].Sha256Hash = media[j].Sha256Hash
            => /\ media[i].DatastoreId = media[j].DatastoreId
               /\ media[i].Location = media[j].Location

C3_Witness ==
    \E i, j \in 1..Len(media) :
        /\ i # j
        /\ media[i].Sha256Hash = media[j].Sha256Hash
        /\ media[i].MediaId # media[j].MediaId
        /\ \A p \in DOMAIN call : Succeeded(p)

\* C4 as stated: a stream on which IsRequestTooLarge returns true, passed to
\* UploadMedia, never results in an insert.
C4_TooLargeNeverInserted ==
    \A p \in DOMAIN call :
        (call[p].fn = "UploadMedia" /\ call[p].tooLarge) => call[p].inserts = 0

\* C4 amended: UploadMedia does not reject a stream on which IsRequestTooLarge
\* returns true; a record it inserts for such a stream is a record of the
\* stream's first max-size-bytes bytes, of size at most max-size-bytes.
C4_TooLargeStoredTruncated ==
    \A p \in DOMAIN call :
        (call[p].fn = "UploadMedia" /\ call[p].tooLarge /\ call[p].inserts > 0)
            => /\ Stored(call[p].media)
               /\ call[p].media.SizeBytes <= config.MaxSizeBytes
               /\ call[p].media.Sha256Hash =
                      GetFileHash(SubSeq(call[p].stream, 1, config.MaxSizeBytes))

C4_Witness ==
    \E p \in DOMAIN call :
        /\ call[p].fn = "UploadMedia"
        /\ call[p].tooLarge
        /\ Succeeded(p)
        /\ call[p].inserts = 1
        /\ Len(call[p].stream) > call[p].result[1].SizeBytes

\* The decimal reading of a header, stated without the parser: an optional
\* sign, then digits only, read in base 10.
DecimalBody(h) == IF h # << >> /\ Head(h) \in {"+", "-"} THEN Tail(h) ELSE h

IsDecimal(h) ==
    /\ DecimalBody(h) # << >>
    /\ \A i \in 1..Len(DecimalBody(h)) :
         DecimalBody(h)[i] \in {"0", "1", "2", "3", "4", "5", "6", "7", "8", "9"}

DecimalValue(h) ==
    LET b == DecimalBody(h)
        mag[i \in 0..Len(b)] == IF i = 0 THEN 0 ELSE 10 * mag[i - 1] + DigitVal(b[i])
    IN  IF Head(h) = "-" THEN -mag[Len(b)] ELSE mag[Len(b)]

ParsesAsInt64(h) == IsDecimal(h) /\ DecimalValue(h) \in Int64Min..Int64Max

TooLargeTable(M, contentLength, header) ==
    IF M <= 0 THEN FALSE
    ELSE IF contentLength >= 0 THEN contentLength > M
    ELSE IF header # << >> THEN ~ParsesAsInt64(header) \/ DecimalValue(header) > M
    ELSE FALSE

TooLargeReturned == probe.fn = "IsRequestTooLarge" /\ probe.pc = "ret"

\* C5: IsRequestTooLarge equals the decision table: false when the maximum
\* is <= 0; else contentLength > maximum when contentLength >= 0 (the header
\* is ignored); else, for a non-empty header, true when the header is no
\* integer of the parser's width and parsed > maximum when it is; else false.
C5_DecisionTable ==
    TooLargeReturned =>
        probe.result = TooLargeTable(config.MaxSizeBytes, probe.contentLength, probe.header)

C5_Witness ==
    /\ TooLargeReturned
    /\ config.MaxSizeBytes > 0
    /\ probe.contentLength = config.MaxSizeBytes
    /\ ~ParsesAsInt64(probe.header)
    /\ probe.header # << >>
    /\ probe.result = FALSE

\* The admission rule, stated without the loop.
MatchingUsers(userId) == {u \in DOMAIN config.PerUserExclusions : Glob(u, userId)}

PerUserAllows(contentType, userId) ==
    \E u \in MatchingUsers(userId) :
        \E i \in 1..Len(config.PerUserExclusions[u]) :
            Glob(config.PerUserExclusions[u][i], contentType)

GeneralAllows(contentType) ==
    \/ Len(config.AllowedTypes) = 0
    \/ \E i \in 1..Len(config.AllowedTypes) : Glob(config.AllowedTypes[i], contentType)

Permitted(contentType, userId) ==
    IF userId # NoApplicableUploadUser /\ MatchingUsers(userId) # {}
    THEN PerUserAllows(contentType, userId)
    ELSE GeneralAllows(contentType)

AllowedReturned == probe.fn = "IsAllowed" /\ probe.pc = "ret"

MatchedWithZeroGlobs(userId) ==
    /\ userId # NoApplicableUploadUser
    /\ \E u \in MatchingUsers(userId) : Len(config.PerUserExclusions[u]) = 0

\* C6 as stated: a non-sentinel user matched by a per-user pattern with zero
\* globs is denied for every content type, whatever the general list and the
\* other per-user entries are.
C6_ZeroGlobsDeniedWhateverElse ==
    (AllowedReturned /\ MatchedWithZeroGlobs(probe.userId)) => probe.result = FALSE

\* C6 amended: a non-sentinel user matched by a per-user pattern with zero
\* globs is denied, whatever the general list is, unless another per-user
\* entry whose pattern matches the user has a glob matching the content type.
C6_ZeroGlobsDenied ==
    (/\ AllowedReturned
     /\ MatchedWithZeroGlobs(probe.userId)
     /\ ~PerUserAllows(probe.contentType, probe.userId))
        => probe.result = FALSE

C6_Witness ==
    /\ AllowedReturned
    /\ MatchedWithZeroGlobs(probe.userId)
    /\ Cardinality(MatchingUsers(probe.userId)) > 1
    /\ ~PerUserAllows(probe.contentType, probe.userId)
    /\ Len(config.AllowedTypes) > 0
    /\ GeneralAllows(probe.contentType)
    /\ probe.result = FALSE

\* C7: once a per-user pattern matches a non-sentinel user, the result is
\* decided by the per-user entries alone: allowed exactly when some entry
\* whose pattern matches the user has a glob matching the content type.
C7_PerUserDecides ==
    (/\ AllowedReturned
     /\ probe.userId # NoApplicableUploadUser
     /\ MatchingUsers(probe.userId) # {})
        => probe.result = PerUserAllows(probe.contentType, probe.userId)

C7_Witness ==
    /\ AllowedReturned
    /\ probe.userId # NoApplicableUploadUser
    /\ Cardinality(MatchingUsers(probe.userId)) > 1
    /\ Glob(probe.order[1], probe.userId)
    /\ ~AnyGlob(config.PerUserExclusions[probe.order[1]], probe.contentType)
    /\ ~GeneralAllows(probe.contentType)
    /\ probe.result = TRUE

\* C8: for the sentinel user, and for a user no per-user pattern matches, the
\* general list alone decides: allowed exactly when allowed-types is empty or
\* one of its patterns matches the content type.
C8_GeneralDecides ==
    (/\ AllowedReturned
     /\ \/ probe.userId = NoApplicableUploadUser
        \/ MatchingUsers(probe.userId) = {})
        => probe.result = GeneralAllows(probe.contentType)

C8_Witness ==
    /\ AllowedReturned
    /\ probe.userId = NoApplicableUploadUser
    /\ MatchingUsers(probe.userId) # {}
    /\ PerUserAllows(probe.contentType, probe.userId)
    /\ probe.result = FALSE

\* Call p is past the admission check, on a sniffed content type.
Admitted(p) ==
    /\ Persisted(p)
    /\ call[p].fileMime # << >>
    /\ call[p].pc \notin {"idle", "sniff", "admit"}

DeniedReturn(c) ==
    /\ c.pc = "done"
    /\ c.err = "ErrMediaNotAllowed"
    /\ c.result = << >>
    /\ c.inserts = 0
    /\ ~c.tracked
    /\ TempPath(c) \notin DOMAIN files

\* C9: the sniffed content type decides admission, whatever the reported type
\* is: a call whose sniffed type is permitted never returns "media not
\* allowed", and a call whose sniffed type is denied returns that error with
\* nothing inserted, no last access tracked and its temp file deleted; the
\* denying step changes neither the media store nor the last-access store.
C9_SniffedTypeDecides ==
    /\ [](\A p \in DOMAIN call :
            Admitted(p) =>
                IF Permitted(call[p].fileMime, call[p].userId)
                THEN call[p].err # "ErrMediaNotAllowed"
                ELSE DeniedReturn(call[p]))
    /\ [][\A p \in DOMAIN call :
            (call[p].pc = "admit" /\ call'[p].err = "ErrMediaNotAllowed")
                => /\ media' = media
                   /\ lastAccess' = lastAccess
                   /\ TempPath(call[p]) \notin DOMAIN files']_vars

C9_Witness ==
    \E p \in DOMAIN call :
        /\ Admitted(p)
        /\ call[p].err = "ErrMediaNotAllowed"
        /\ call[p].fileMime = MimeZip
        /\ call[p].contentType = MimePng
        /\ Permitted(call[p].contentType, call[p].userId)

\* The lookup of call p returned records and none is an exact duplicate that
\* short-circuits the call.
ClonePath(c) ==
    /\ Len(c.records) > 0
    /\ ~(/\ c.userId # NoApplicableUploadUser
         /\ \E i \in 1..Len(c.records) :
              /\ c.records[i].UserId = c.userId
              /\ c.records[i].Origin = c.origin
              /\ c.records[i].ContentType = c.contentType)

\* C10: on the clone path a successful StoreDirect has inserted exactly one
\* record, with the new upload's origin, media id, user id, upload name and
\* reported content type, and with the hash, size, datastore id and location
\* of a record the lookup returned; afterwards the temp file is gone and the
\* template's path holds the bytes (the temp file was removed when the path
\* existed and renamed onto it when it did not).
C10_CloneKeepsOneBlob ==
    \A p \in DOMAIN call :
        (Succeeded(p) /\ ClonePath(call[p])) =>
            LET c == call[p]
                r == c.result[1]
            IN  /\ c.inserts = 1
                /\ Stored(r)
                /\ r.Origin = c.origin
                /\ r.MediaId = c.mediaId
                /\ r.UserId = c.userId
                /\ r.UploadName = c.filename
                /\ r.ContentType = c.contentType
                /\ \E i \in 1..Len(c.records) :
                     /\ c.records[i].Sha256Hash = c.hash
                     /\ Stored(c.records[i])
                     /\ r.Sha256Hash = c.records[i].Sha256Hash
                     /\ r.SizeBytes = c.records[i].SizeBytes
                     /\ r.DatastoreId = c.records[i].DatastoreId
                     /\ r.Location = c.records[i].Location
                /\ TempPath(c) \notin DOMAIN files
                /\ BlobPath(r) \in DOMAIN files
                /\ GetFileHash(files[BlobPath(r)]) = r.Sha256Hash

C10_Witness ==
    \E p \in DOMAIN call :
        /\ Succeeded(p)
        /\ ClonePath(call[p])
        /\ ~call[p].exists
        /\ ~call[p].existsErr
        /\ call[p].userId # call[p].records[1].UserId
        /\ BlobPath(call[p].result[1]) \in DOMAIN files

\* C11: every successful return was preceded by an attempt to upsert the
\* last access of the returned record's hash, and once the upsert was
\* attempted the call returns the record and no error, whether the upsert
\* succeeded or failed; a successful upsert leaves an entry for the hash.
C11_TrackedBeforeSuccess ==
    \A p \in DOMAIN call :
        /\ Succeeded(p) =>
              /\ call[p].tracked
              /\ call[p].result # << >>
              /\ call[p].trackedHash = call[p].result[1].Sha256Hash
        /\ call[p].tracked =>
              /\ Succeeded(p)
              /\ call[p].result = <<call[p].media>>
              /\ ~call[p].upsertErr => call[p].trackedHash \in DOMAIN lastAccess

C11_Witness ==
    \E p, q \in DOMAIN call :
        /\ Succeeded(p)
        /\ Succeeded(q)
        /\ call[p].inserts = 1
        /\ call[q].inserts = 0
        /\ call[p].upsertErr
        /\ call[q].upsertErr
        /\ call[q].result # << >>
        /\ DOMAIN lastAccess = {}

\* The errors of the collaborators a call can fail on before or at the size
\* check, whatever the uploaded bytes.
StageFailures ==
    {"GenerateRandomString", "PersistFile", "GetMimeType", "GetFileHash",
     "GetByHash", "FileSize"}

ZeroByteReturn(p) == Returned(p) /\ call[p].stream = << >>

\* C12 as stated: uploading a zero-byte stream returns the "file has no
\* contents" error and creates no media record, for every configuration and
\* user (failures of the collaborators set aside).
C12_EmptyAlwaysNoContents ==
    \A p \in DOMAIN call :
        (ZeroByteReturn(p) /\ call[p].err \notin StageFailures) =>
            /\ call[p].err = "file has no contents"
            /\ call[p].inserts = 0

\* C12: uploading a zero-byte stream returns an error and no record and
\* inserts nothing; the error is "file has no contents" when the type sniffed
\* from the empty file is permitted for the user under the configuration, and
\* the media-not-allowed error when it is not, because admission runs before
\* the size check (failures of the collaborators set aside).
C12_EmptyNoContentsWhenAdmitted ==
    \A p \in DOMAIN call :
        ZeroByteReturn(p) =>
            /\ Failed(p)
            /\ call[p].result = << >>
            /\ call[p].inserts = 0
            /\ ~call[p].tracked
            /\ call[p].err \notin StageFailures =>
                  call[p].err = IF Permitted(GetMimeType(<< >>), call[p].userId)
                                THEN "file has no contents"
                                ELSE "ErrMediaNotAllowed"

C12_Witness ==
    \E p, q \in DOMAIN call :
        /\ ZeroByteReturn(p)
        /\ call[p].fn = "UploadMedia"
        /\ call[p].err = "file has no contents"
        /\ ZeroByteReturn(q)
        /\ call[q].fn = "StoreDirect"
        /\ call[q].err = "file has no contents"
        /\ media = << >>

\* The blob a record references exists and its bytes hash to the record's hash.
BlobIntact(record) ==
    /\ BlobPath(record) \in DOMAIN files
    /\ GetFileHash(files[BlobPath(record)]) = record.Sha256Hash

\* A step keeps every referenced blob and its bytes.
BlobsKept ==
    \A i \in 1..Len(media) :
        BlobPath(media[i]) \in DOMAIN files =>
            /\ BlobPath(media[i]) \in DOMAIN files'
            /\ files'[BlobPath(media[i])] = files[BlobPath(media[i])]

\* C13: in every reachable state, every (datastore id, location) referenced by
\* a media record names an existing blob whose bytes hash to the record's
\* hash, and no step (temp-file removal, rename onto a target path) removes a
\* referenced blob or replaces its bytes with different bytes.
C13_ReferencedBlobsIntact ==
    /\ [](\A i \in 1..Len(media) : BlobIntact(media[i]))
    /\ [][BlobsKept]_vars

C13_Witness ==
    \E p \in DOMAIN call :
        \E i, j \in 1..Len(media) :
            /\ i # j
            /\ BlobPath(media[i]) = BlobPath(media[j])
            /\ BlobIntact(media[i])
            /\ Succeeded(p)
            /\ call[p].clone
            /\ call[p].existsErr
            /\ call[p].result = <<media[j]>>
            /\ TempPath(call[p]) # BlobPath(media[j])
            /\ TempPath(call[p]) \notin DOMAIN files

\* C14: every record in the media store has size > 0 in every reachable
\* state, and the size is the byte count of the blob the record references:
\* the fresh path inserts only after checking size > 0, and the clone path
\* copies the size of an already stored record.
C14_StoredSizePositive ==
    \A i \in 1..Len(media) :
        /\ media[i].SizeBytes > 0
        /\ BlobPath(media[i]) \in DOMAIN files =>
              media[i].SizeBytes = FileSize(files[BlobPath(media[i])])

C14_Witness ==
    \E p, q \in DOMAIN call :
        /\ Succeeded(p)
        /\ ~call[p].clone
        /\ call[p].inserts = 1
        /\ Succeeded(q)
        /\ call[q].clone
        /\ call[q].inserts = 1
        /\ Len(media) = 2
        /\ call[q].result[1].SizeBytes = call[p].result[1].SizeBytes
        /\ call[q].result[1].SizeBytes > 0

FreshInsert(p) ==
    /\ Succeeded(p)
    /\ call[p].records = << >>
    /\ call[p].inserts = 1
    /\ BlobPath(call[p].result[1]) = TempPath(call[p])

\* A lookup by a hash of which the store holds records returns all of them.
LookupFindsStored ==
    \A p \in DOMAIN call :
        (/\ call[p].pc = "lookup"
         /\ call'[p].pc = "reconcile"
         /\ \E i \in 1..Len(media) : media[i].Sha256Hash = call[p].hash)
        => /\ Len(call'[p].records) =
                Cardinality({i \in 1..Len(media) : media[i].Sha256Hash = call[p].hash})
           /\ \A k \in 1..Len(call'[p].records) :
                 /\ Stored(call'[p].records[k])
                 /\ call'[p].records[k].Sha256Hash = call[p].hash

\* A call whose lookup returned records never saves its upload as new: it
\* returns the first exact duplicate or a clone of the first record returned,
\* at that record's location, and its own file is gone.
DuplicateReusesLocation ==
    \A p \in DOMAIN call :
        (Succeeded(p) /\ Len(call[p].records) > 0) =>
            /\ BlobPath(call[p].result[1]) # TempPath(call[p])
            /\ TempPath(call[p]) \notin DOMAIN files
            /\ IF call[p].clone
               THEN /\ BlobPath(call[p].result[1]) = BlobPath(call[p].records[1])
                    /\ call[p].inserts = 1
               ELSE /\ call[p].result[1] = call[p].records[ExactDuplicate(call[p])]
                    /\ call[p].inserts = 0

\* C16: two concurrent uploads of the same bytes can both find no record,
\* both insert as new and leave two records of one hash at two locations;
\* every upload that looks the hash up afterwards finds these records, takes
\* the duplicate path and reuses the location of the record the store
\* returned first (or returns its own exact duplicate).
C16_RaceThenDedupe ==
    /\ []DuplicateReusesLocation
    /\ [][LookupFindsStored]_vars

C16_Witness ==
    \E p, q, r \in DOMAIN call :
        /\ FreshInsert(p)
        /\ FreshInsert(q)
        /\ call[p].hash = call[q].hash
        /\ BlobPath(call[p].result[1]) # BlobPath(call[q].result[1])
        /\ Stored(call[p].result[1])
        /\ Stored(call[q].result[1])
        /\ Succeeded(r)
        /\ Len(call[r].records) = 2
        /\ call[r].clone
        /\ call[r].records[1] = call[q].result[1]
        /\ BlobPath(call[r].result[1]) = BlobPath(call[q].result[1])
        /\ p < q

\* The stages of StoreDirect in the order of the claim, by the position a
\* call is at when the stage is about to run: persist runs at entry.
StagePositions == <<"idle", "sniff", "admit", "hash", "lookup", "insert">>

StageOf(pc) ==
    IF \E k \in DOMAIN StagePositions : StagePositions[k] = pc
    THEN CHOOSE k \in DOMAIN StagePositions : StagePositions[k] = pc
    ELSE 0

\* The steps between lookup and insert, and after insert, that are not
\* stages of the claim.
OtherSteps ==
    {<<"lookup", "reconcile">>, <<"reconcile", "stat">>, <<"reconcile", "insert">>,
     <<"reconcile", "track">>, <<"stat", "insert">>, <<"insert", "resolve">>,
     <<"insert", "track">>, <<"resolve", "exists">>, <<"exists", "move">>,
     <<"move", "track">>, <<"track", "done">>}

\* A step of call p runs the stage the call is at, and moves the call to the
\* next stage only if the stage succeeded; a failed stage ends the call.
StepInOrder(p) ==
    LET from == call[p].pc
        to == call'[p].pc
    IN  from # to =>
            /\ call[p].err = None
            /\ \/ to = "done" /\ call'[p].err # None
               \/ /\ call'[p].err = None
                  /\ \/ <<from, to>> \in OtherSteps
                     \/ /\ StageOf(from) > 0
                        /\ StageOf(to) = StageOf(from) + 1

\* The media store changes only by the insert of a call that is at its insert
\* stage, after the lookup by the hash of the inserted record.
InsertAfterLookup ==
    media' # media =>
        \E p \in DOMAIN call :
            /\ call[p].pc = "insert"
            /\ call[p].hash # << >>
            /\ call[p].media.Sha256Hash = call[p].hash
            /\ \A k \in 1..Len(call[p].records) :
                  call[p].records[k].Sha256Hash = call[p].hash
            /\ media' = Append(media, call[p].media)
            /\ call'[p].inserts = call[p].inserts + 1

\* Content whose sniffed type is denied is checked and returned: it has no
\* hash, no looked-up records and no insert.
DeniedStopsAtAdmit(c) ==
    (c.fileMime # << >> /\ ~Permitted(c.fileMime, c.userId)) =>
        /\ c.pc \in {"admit", "done"}
        /\ c.pc = "done" => c.err = "ErrMediaNotAllowed"
        /\ c.hash = << >>
        /\ c.records = << >>
        /\ c.inserts = 0

\* What a call holds tells how far it went: a sniffed type only past sniff, a
\* hash only past hash, records and inserts only past lookup.
HeldInOrder(c) ==
    /\ c.fileMime # << >> => c.location # 0
    /\ c.hash # << >> => c.fileMime # << >>
    /\ (c.records # << >> \/ c.inserts > 0) => c.hash # << >>
    /\ c.pc \in {"idle", "sniff"} => c.fileMime = << >>
    /\ c.pc \in {"idle", "sniff", "admit", "hash"} => c.hash = << >>
    /\ c.pc \in {"idle", "sniff", "admit", "hash", "lookup", "reconcile", "stat", "insert"}
          => c.inserts = 0

\* C17: in every execution of StoreDirect the stages run in the order
\* persist, sniff, admit, hash, lookup, insert, and a stage runs only if every
\* earlier stage succeeded; content whose sniffed type is denied is never
\* hashed, never looked up and never inserted, and no insert happens before
\* the lookup by hash of the same call.
C17_StagesInOrder ==
    /\ [](\A p \in DOMAIN call : HeldInOrder(call[p]) /\ DeniedStopsAtAdmit(call[p]))
    /\ [][(\A p \in DOMAIN call : StepInOrder(p)) /\ InsertAfterLookup]_vars

C17_Witness ==
    \E p, q \in DOMAIN call :
        /\ call[p].fn = "StoreDirect"
        /\ call[p].fileMime = MimeZip
        /\ ~Permitted(call[p].fileMime, call[p].userId)
        /\ call[p].err = "ErrMediaNotAllowed"
        /\ call[p].hash = << >>
        /\ call[q].fn = "StoreDirect"
        /\ Succeeded(q)
        /\ call[q].hash # << >>
        /\ call[q].inserts = 1
        /\ Stored(call[q].result[1])

\* C18: the result of IsAllowed is the same for every order in which the
\* per-user entries are iterated and for every reported content type, for a
\* fixed configuration, sniffed content type and user id, including when the
\* user id matches several per-user patterns.
C18_SameForEveryOrder ==
    AllowedReturned =>
        \A order \in RangeOrders(config.PerUserExclusions) :
            \A reported \in {MimePng, MimeZip} :
                IsAllowedIn(order, probe.contentType, reported, probe.userId)
                    = probe.result

C18_Witness ==
    /\ AllowedReturned
    /\ probe.userId # NoApplicableUploadUser
    /\ Cardinality(MatchingUsers(probe.userId)) > 1
    /\ Cardinality(RangeOrders(config.PerUserExclusions)) > 1
    /\ \E u \in MatchingUsers(probe.userId) :
          ~AnyGlob(config.PerUserExclusions[u], probe.contentType)
    /\ Glob(probe.order[1], probe.userId)
    /\ AnyGlob(config.PerUserExclusions[probe.order[1]], probe.contentType)
    /\ probe.result = TRUE

\* C19: each call of StoreDirect inserts at most one media record, and a call
\* that returns an error has inserted none.
C19_NoInsertOnError ==
    \A p \in DOMAIN call :
        /\ call[p].inserts <= 1
        /\ Failed(p) => call[p].inserts = 0

\* The first n bytes of a stream, or all of it when it is shorter.
Prefix(stream, n) == [k \in 1..(IF Len(stream) < n THEN Len(stream) ELSE n) |-> stream[k]]

\* C20: with max-size-bytes = M > 0, every record returned by UploadMedia has
\* size <= M, on the fresh, clone and exact-duplicate paths alike: the record
\* has the hash and the size of the first M bytes of the stream, and the blob
\* it references holds those bytes.
C20_UploadedSizeWithinLimit ==
    \A p \in DOMAIN call :
        (/\ call[p].fn = "UploadMedia"
         /\ config.MaxSizeBytes > 0
         /\ Succeeded(p)) =>
            LET record == call[p].result[1]
                stored == Prefix(call[p].stream, config.MaxSizeBytes)
            IN  /\ record.SizeBytes <= config.MaxSizeBytes
                /\ record.SizeBytes = Len(stored)
                /\ record.Sha256Hash = GetFileHash(stored)
                /\ BlobPath(record) \in DOMAIN files => files[BlobPath(record)] = stored

C20_Witness ==
    \E p, q \in DOMAIN call :
        /\ p # q
        /\ config.MaxSizeBytes > 0
        /\ call[p].fn = "UploadMedia"
        /\ call[q].fn = "UploadMedia"
        /\ Len(call[p].stream) > config.MaxSizeBytes
        /\ Len(call[q].stream) > config.MaxSizeBytes
        /\ FreshInsert(p)
        /\ Succeeded(q)
        /\ Len(call[q].records) > 0
        /\ call[q].result[1].SizeBytes = config.MaxSizeBytes
        /\ files[BlobPath(call[q].result[1])] # call[q].stream

====
